---- MODULE Spec2Model ----
(***************************************************************************)
(* Model of the episode controller ClashRoyaleEnv (src/env.py) and of the  *)
(* parts of the action executor Actions (src/Actions.py) it relies on.     *)
(*                                                                         *)
(* Numbers.  Pixel coordinates are integers.  A field fraction  x / WIDTH  *)
(* or  y / HEIGHT  and every quantity the reward is made of are kept as    *)
(* integers in units of 1 / Scale, Scale = WIDTH * HEIGHT, which is exact  *)
(* for integer pixel coordinates.  An optional value is a sequence: None    *)
(* is the empty sequence and a present value v is <<v>>; an observation is *)
(* None or the vector itself.  The terminal outcome alone is a string:     *)
(* "None", "victory" or "defeat".                                          *)
(* The entries of the action catalogue keep their fractions as pairs       *)
(* <<numerator, denominator>>.                                             *)
(***************************************************************************)
EXTENDS Integers, Sequences, FiniteSets, TLC

(***************************************************************************)
(* Bounds of the model.                                                    *)
(***************************************************************************)
\* reset() is called at most MaxResets times, so at most MaxResets watcher
\* threads are ever started
MaxResets == 2
\* the per-episode count of terminal bonuses saturates at BonusCap
BonusCap == 2
\* the count of polls completed after the stop signal saturates at PollCap
PollCap == 2

(***************************************************************************)
(* Program constants.                                                      *)
(***************************************************************************)
MAX_ENEMIES == 10
MAX_ALLIES == 10
num_cards == 4
grid_width == 18
grid_height == 28
TOP_LEFT_X == 0
TOP_LEFT_Y == 100
BOTTOM_RIGHT_X == 1280
BOTTOM_RIGHT_Y == 620
WIDTH == BOTTOM_RIGHT_X - TOP_LEFT_X
HEIGHT == BOTTOM_RIGHT_Y - TOP_LEFT_Y
SPELL_CARDS == {"Fireball", "Zap", "Arrows", "Tornado", "Rocket", "Lightning", "Freeze"}

\* the unit of the fixed-point fractions: 1 / Scale
Scale == WIDTH * HEIGHT

\* Python's None for an optional number or vector, and a present value
None == <<>>
Some(v) == <<v>>

(***************************************************************************)
(* The action catalogue, built as get_available_actions builds it: a list  *)
(* comprehension over card, then x, then y, and the no-op appended.        *)
(***************************************************************************)
RECURSIVE FlattenSeq(_)
FlattenSeq(ss) ==
    IF ss = <<>> THEN <<>> ELSE Head(ss) \o FlattenSeq(Tail(ss))

\* fractions i / dimension: the last grid line falls short of 1.0
ActionsOfColumn_OverDimension(card, x) ==
    [yy \in 1..grid_height |->
        <<card, <<x, grid_width>>, <<yy - 1, grid_height>>>>]

\* the innermost loop: for y in range(grid_height)
ActionsOfColumn(card, x) ==
    [yy \in 1..grid_height |->
        <<card, <<x, grid_width - 1>>, <<yy - 1, grid_height - 1>>>>]

\* the middle loop: for x in range(grid_width)
ActionsOfCard(card) ==
    FlattenSeq([xx \in 1..grid_width |-> ActionsOfColumn(card, xx - 1)])

NoOpAction == <<-1, <<0, 1>>, <<0, 1>>>>

get_available_actions ==
    Append(FlattenSeq([cc \in 1..num_cards |-> ActionsOfCard(cc - 1)]), NoOpAction)

(***************************************************************************)
(* Strings that the code inspects character by character (class labels)    *)
(* are sequences of one-character strings.                                 *)
(***************************************************************************)
\* the upper-case letters and their lower-case forms
ToLower ==
    ("A" :> "a") @@ ("B" :> "b") @@ ("C" :> "c") @@ ("D" :> "d")
    @@ ("E" :> "e") @@ ("F" :> "f") @@ ("G" :> "g") @@ ("H" :> "h")
    @@ ("I" :> "i") @@ ("J" :> "j") @@ ("K" :> "k") @@ ("L" :> "l")
    @@ ("M" :> "m") @@ ("N" :> "n") @@ ("O" :> "o") @@ ("P" :> "p")
    @@ ("Q" :> "q") @@ ("R" :> "r") @@ ("S" :> "s") @@ ("T" :> "t")
    @@ ("U" :> "u") @@ ("V" :> "v") @@ ("W" :> "w") @@ ("X" :> "x")
    @@ ("Y" :> "y") @@ ("Z" :> "z")
WhiteSpace == {" ", "\t", "\n"}

\* str.lower() of one character
LowerChar(c) == IF c \in DOMAIN ToLower THEN ToLower[c] ELSE c

\* str.lower()
Lower(s) == [i \in 1..Len(s) |-> LowerChar(s[i])]

RECURSIVE LStrip(_)
LStrip(s) ==
    IF s # <<>> /\ Head(s) \in WhiteSpace THEN LStrip(Tail(s)) ELSE s

RECURSIVE RStrip(_)
RStrip(s) ==
    IF s # <<>> /\ s[Len(s)] \in WhiteSpace
    THEN RStrip(SubSeq(s, 1, Len(s) - 1))
    ELSE s

\* str.strip()
Strip(s) == RStrip(LStrip(s))

\* str.startswith(prefix)
StartsWith(s, prefix) ==
    /\ Len(s) >= Len(prefix)
    /\ SubSeq(s, 1, Len(prefix)) = prefix

S_ally == <<"a","l","l","y">>
S_enemy == <<"e","n","e","m","y">>
S_king_tower == <<" ","k","i","n","g"," ","t","o","w","e","r">>
S_princess_tower == <<" ","p","r","i","n","c","e","s","s"," ","t","o","w","e","r">>
S_enemy_princess_tower == S_enemy \o S_princess_tower

\* the set TOWER_CLASSES of _get_state and tower_classes of _get_enemy_units
TOWER_CLASSES ==
    {S_ally \o S_king_tower, S_ally \o S_princess_tower,
     S_enemy \o S_king_tower, S_enemy \o S_princess_tower}

(***************************************************************************)
(* Sequence helpers for Python's list operations.                          *)
(***************************************************************************)
RECURSIVE SumSeq(_)
SumSeq(s) == IF s = <<>> THEN 0 ELSE Head(s) + SumSeq(Tail(s))

\* [p for p in s if Keep(p)]
FilterSeq(s, Keep(_)) == SelectSeq(s, Keep)

Min2(a, b) == IF a < b THEN a ELSE b
Max2(a, b) == IF a > b THEN a ELSE b

\* units[:max_units]
Prefix(s, n) == SubSeq(s, 1, Min2(n, Len(s)))

\* [v] * n
Repeat(v, n) == [i \in 1..n |-> v]

\* p.get("class", ""): a missing label reads as the empty string
ClassOf(p) == IF "class" \in DOMAIN p THEN p.class ELSE <<>>

(***************************************************************************)
(* The state encoder _get_state.  A frame is what one call sees on the     *)
(* device: frame.elixir is count_elixir(), frame.predictions the list of   *)
(* predictions found in the detection service's answer.                    *)
(***************************************************************************)
\* a normalisation that forgets to trim
normalize_class_NoTrim(cls) == Lower(cls)

\* normalize_class
normalize_class(cls) == Lower(Strip(cls))

IsAllyUnit(p) ==
    /\ normalize_class(ClassOf(p)) \notin TOWER_CLASSES
    /\ StartsWith(normalize_class(ClassOf(p)), S_ally)
    /\ "x" \in DOMAIN p /\ "y" \in DOMAIN p

IsEnemyUnit(p) ==
    /\ normalize_class(ClassOf(p)) \notin TOWER_CLASSES
    /\ StartsWith(normalize_class(ClassOf(p)), S_enemy)
    /\ "x" \in DOMAIN p /\ "y" \in DOMAIN p

\* a normalisation that divides x by the height and y by the width
normalize_Swapped(units, width, height) ==
    [i \in 1..Len(units) |-> <<units[i].x * width, units[i].y * height>>]

\* normalize: (x / self.actions.WIDTH, y / self.actions.HEIGHT), in units of
\* 1 / (width * height); width and height are the attributes read at the call
normalize(units, width, height) ==
    [i \in 1..Len(units) |-> <<units[i].x * height, units[i].y * width>>]

\* a truncation that is forgotten: every unit of the side is kept
pad_units_KeepsAll(units, max_units, width, height) ==
    LET n == normalize(units, width, height)
    IN IF Len(n) < max_units
       THEN n \o Repeat(<<0, 0>>, max_units - Len(n))
       ELSE n

pad_units(units, max_units, width, height) ==
    LET n == normalize(units, width, height)
        padded == IF Len(n) < max_units
                  THEN n \o Repeat(<<0, 0>>, max_units - Len(n))
                  ELSE n
    IN Prefix(padded, max_units)

\* [coord for pos in positions for coord in pos]
Flat(positions) ==
    [i \in 1..(2 * Len(positions)) |-> positions[(i + 1) \div 2][2 - (i % 2)]]

\* the value _get_state returns: None, or the observation vector
get_state(frame, width, height) ==
    IF frame.predictions = <<>> THEN None
    ELSE LET allies == FilterSeq(frame.predictions, IsAllyUnit)
             enemies == FilterSeq(frame.predictions, IsEnemyUnit)
             ally_positions == pad_units(allies, MAX_ALLIES, width, height)
             enemy_positions == pad_units(enemies, MAX_ENEMIES, width, height)
         IN <<(frame.elixir * (width * height)) \div 10>>
                \o Flat(ally_positions) \o Flat(enemy_positions)

\* self.last_predictions after a call of _get_state
predictions_after(last, frame) ==
    IF frame.predictions = <<>> THEN last ELSE frame.predictions

(***************************************************************************)
(* _count_enemy_princess_towers: the label is compared as it is.           *)
(***************************************************************************)
IsEnemyPrincessTower(p) == "class" \in DOMAIN p /\ p.class = S_enemy_princess_tower

count_enemy_princess_towers(frame) ==
    Len(FilterSeq(frame.predictions, IsEnemyPrincessTower))

(***************************************************************************)
(* The reward function _compute_reward: its value and the previous elixir  *)
(* and previous enemy presence it leaves behind.                           *)
(***************************************************************************)
\* a trade bonus given whatever the signs of the two differences
compute_reward_AnyTrade(state, p_elixir, p_presence) ==
    IF state = None
    THEN [reward |-> 0, prev_elixir |-> p_elixir, prev_enemy_presence |-> p_presence]
    ELSE LET elixir == state[1] * 10
             enemy_presence == SumSeq(SubSeq(state, 2 + 2 * MAX_ALLIES, Len(state)))
             bonus == IF p_elixir # None /\ p_presence # None
                      THEN 2 * Min2(p_elixir[1] - elixir, p_presence[1] - enemy_presence)
                      ELSE 0
         IN [reward |-> bonus - enemy_presence,
             prev_elixir |-> Some(elixir),
             prev_enemy_presence |-> Some(enemy_presence)]

compute_reward(state, p_elixir, p_presence) ==
    IF state = None
    THEN [reward |-> 0, prev_elixir |-> p_elixir, prev_enemy_presence |-> p_presence]
    ELSE LET elixir == state[1] * 10
             enemy_presence == SumSeq(SubSeq(state, 2 + 2 * MAX_ALLIES, Len(state)))
             base == 0 - enemy_presence
             bonus == IF p_elixir # None /\ p_presence # None
                      THEN LET elixir_spent == p_elixir[1] - elixir
                               enemy_reduced == p_presence[1] - enemy_presence
                           IN IF elixir_spent > 0 /\ enemy_reduced > 0
                              THEN 2 * Min2(elixir_spent, enemy_reduced)
                              ELSE 0
                      ELSE 0
         IN [reward |-> base + bonus,
             prev_elixir |-> Some(elixir),
             prev_enemy_presence |-> Some(enemy_presence)]

(***************************************************************************)
(* _get_enemy_units and the placement heuristic _compute_placement.        *)
(***************************************************************************)
IsTrackedEnemy(p) ==
    /\ "class" \in DOMAIN p
    /\ p.class # <<>>
    /\ Lower(Strip(p.class)) \notin TOWER_CLASSES
    /\ StartsWith(Lower(Strip(p.class)), S_enemy)
    /\ "x" \in DOMAIN p /\ "y" \in DOMAIN p

get_enemy_units(predictions) == FilterSeq(predictions, IsTrackedEnemy)

\* a clamp that forgets the lower end
Clamp01_NoFloor(frac) == Min2(Scale, frac)

\* max(0.0, min(1.0, frac))
Clamp01(frac) == Max2(0, Min2(Scale, frac))

\* max(enemy_units, key=lambda u: u["y"]): the first unit of the greatest y
MaxByY(units) ==
    units[CHOOSE i \in 1..Len(units) :
            /\ \A j \in 1..(i - 1) : units[j].y < units[i].y
            /\ \A j \in (i + 1)..Len(units) : units[j].y <= units[i].y]

\* <<x_frac, y_frac>> in units of 1 / Scale
compute_placement(card_name, predictions) ==
    LET enemy_units == get_enemy_units(predictions)
        n == Len(enemy_units)
    IN IF card_name \in SPELL_CARDS
       THEN IF n > 0
            THEN LET sx == SumSeq([i \in 1..n |-> enemy_units[i].x])
                     sy == SumSeq([i \in 1..n |-> enemy_units[i].y])
                 IN <<Clamp01((sx * HEIGHT) \div n), Clamp01((sy * WIDTH) \div n)>>
            ELSE <<Scale \div 2, Scale \div 2>>
       ELSE IF n > 0
            THEN <<Clamp01(MaxByY(enemy_units).x * HEIGHT), (3 * Scale) \div 4>>
            ELSE <<Scale \div 2, (4 * Scale) \div 5>>

\* int(frac * extent) of a fraction in units of 1 / Scale
ToPixels(frac, extent) == (frac * extent) \div Scale

(***************************************************************************)
(* detect_cards_in_hand.  slots is what the hand-reading pass meets: one   *)
(* entry per card image of capture_individual_cards (none when no          *)
(* screenshot could be taken), each "raise" (the classification call       *)
(* raises), "empty" (no prediction) or the name of the top class.          *)
(* workspace_name is whether WORKSPACE_CARD_DETECTION is set: the          *)
(* ValueError raised without it is caught like any other exception.        *)
(***************************************************************************)
detect_cards_in_hand(slots, workspace_name) ==
    IF ~workspace_name \/ \E i \in 1..Len(slots) : slots[i] = "raise"
    THEN <<>>
    ELSE [i \in 1..Len(slots) |-> IF slots[i] = "empty" THEN "Unknown" ELSE slots[i]]

(***************************************************************************)
(* Actions.count_elixir.  device is "missing" (no ADB device), "fails"     *)
(* (screencap raises) or "ok"; shot is the decoded screenshot: its width,  *)
(* its height and px, the <<R, G, B>> of the pixel at each sampled         *)
(* position of row ElixirY.  wrap tells how the build subtracts a Python   *)
(* int from a uint8 scalar: modulo 256 (NumPy 2) or in a wider integer.    *)
(***************************************************************************)
ElixirY == 650
ElixirStartX == 400
ElixirEndX == 880
ElixirSpacing == 48
ElixirTolerance == 80
ElixirCap == 10
ElixirTarget == <<225, 128, 229>>

\* range(start, stop, spacing)
RangeSeq(start, stop, spacing) ==
    [i \in 1..((stop - start + spacing - 1) \div spacing) |-> start + (i - 1) * spacing]

\* _take_screenshot: None without a device or when screencap raises
take_screenshot(device, shot) == IF device = "ok" THEN Some(shot) ELSE None

\* abs(channel - target) <= tolerance
ChannelMatches(channel, target, wrap) ==
    LET diff == channel - target
    IN IF wrap
       THEN (diff % 256) <= ElixirTolerance
       ELSE (IF diff < 0 THEN 0 - diff ELSE diff) <= ElixirTolerance

\* b, g, r = pixel[:3] of an RGB array, compared with target[2], [1], [0]
PixelMatches(pixel, wrap) ==
    LET b == pixel[1]
        g == pixel[2]
        r == pixel[3]
    IN /\ ChannelMatches(r, ElixirTarget[1], wrap)
       /\ ChannelMatches(g, ElixirTarget[2], wrap)
       /\ ChannelMatches(b, ElixirTarget[3], wrap)

\* the positions whose pixel is counted
CountedPositions(shot, xs, wrap) ==
    {i \in 1..Len(xs) : /\ xs[i] < shot.width
                        /\ ElixirY < shot.height
                        /\ PixelMatches(shot.px[i], wrap)}

\* a count that samples every half spacing and forgets the cap
count_elixir_Uncapped(device, shot, wrap) ==
    LET screenshot == take_screenshot(device, shot)
    IN IF screenshot = None THEN 0
       ELSE Cardinality(CountedPositions(
                [width |-> shot.width, height |-> shot.height,
                 px |-> [i \in 1..(2 * Len(shot.px)) |-> shot.px[(i + 1) \div 2]]],
                RangeSeq(ElixirStartX, ElixirEndX, ElixirSpacing \div 2), wrap))

count_elixir(device, shot, wrap) ==
    LET screenshot == take_screenshot(device, shot)
    IN IF screenshot = None THEN 0
       ELSE Min2(Cardinality(CountedPositions(screenshot[1],
                     RangeSeq(ElixirStartX, ElixirEndX, ElixirSpacing), wrap)),
                 ElixirCap)

(***************************************************************************)
(* Actions.detect_game_end.  finds lists what the successive calls of      *)
(* _find_template meet, one per confidence level: kind is "raise", "none"  *)
(* or "match", and y the matched centre's ordinate; "noshot" is a search   *)
(* that had no screenshot to look at (_take_screenshot returned None) and  *)
(* so reports nothing.                                                     *)
(***************************************************************************)
NumConfidences == 3
VictoryBelowY == 300

RECURSIVE game_end_from(_, _)
game_end_from(finds, i) ==
    IF i > NumConfidences THEN "None"
    ELSE IF finds[i].kind = "raise" THEN "None"
    ELSE IF finds[i].kind = "match"
         THEN IF finds[i].y > VictoryBelowY THEN "victory" ELSE "defeat"
    ELSE game_end_from(finds, i + 1)

\* a detector whose handler goes on with the next confidence level
detect_game_end_RetriesAfterError(finds) ==
    game_end_from([i \in 1..Len(finds) |->
                      IF finds[i].kind = "raise" THEN [kind |-> "none", y |-> 0]
                      ELSE finds[i]], 1)

detect_game_end(finds) == game_end_from(finds, 1)

\* the call met an error: a search that raised (caught by the handler of
\* detect_game_end) or a screenshot that could not be taken
detector_fails(finds) ==
    \E i \in 1..NumConfidences :
        /\ finds[i].kind \in {"raise", "noshot"}
        /\ \A j \in 1..(i - 1) : finds[j].kind \notin {"raise", "match"}

(***************************************************************************)
(* Python's list indexing: a negative index counts from the end.           *)
(***************************************************************************)
IndexInRange(seq, i) == 0 - Len(seq) <= i /\ i < Len(seq)
PyIndex(seq, i) == IF i >= 0 THEN seq[i + 1] ELSE seq[Len(seq) + i + 1]

(***************************************************************************)
(* What the environment can answer to the calls the controller makes.      *)
(***************************************************************************)
L_ally_knight == <<"a","l","l","y"," ","k","n","i","g","h","t">>
L_enemy_archer == <<"e","n","e","m","y"," ","a","r","c","h","e","r">>

\* no prediction at all
FrameNone == [elixir |-> 5, predictions |-> <<>>]

\* both enemy princess towers stand; one ally and one enemy unit
FrameA ==
    [elixir |-> 7,
     predictions |->
        <<[class |-> S_enemy_princess_tower, x |-> 300, y |-> 80],
          [class |-> S_enemy_princess_tower, x |-> 980, y |-> 80],
          [class |-> L_ally_knight, x |-> 640, y |-> 400],
          [class |-> L_enemy_archer, x |-> 320, y |-> 260]>>]

Frames == {FrameNone, FrameA}

\* the hand-reading pass: no card recognised; a spell, two troops and an
\* unrecognised slot; a classification call that raises
HandInputs ==
    {<<"empty", "empty", "empty", "empty">>,
     <<"Fireball", "Knight", "empty", "Archers">>,
     <<"Knight", "raise", "Zap", "Giant">>}

NotFound == [kind |-> "none", y |-> 0]
NoScreenshot == [kind |-> "noshot", y |-> 0]
FindInputs ==
    {<<NotFound, NotFound, NotFound>>,
     <<[kind |-> "match", y |-> 350], NotFound, NotFound>>,
     <<NotFound, NotFound, [kind |-> "match", y |-> 250]>>,
     <<NotFound, [kind |-> "raise", y |-> 0], [kind |-> "match", y |-> 350]>>,
     <<NoScreenshot, NoScreenshot, NoScreenshot>>}

\* the catalogue size, as __init__ computes action_size
CatalogueSize == num_cards * grid_width * grid_height + 1

\* the action_index a caller may pass: the first cell of card 0 and of card 3,
\* the no-op, and an index outside 0..CatalogueSize-1 on either side
RequestedIndexes ==
    {0, 3 * grid_width * grid_height, CatalogueSize - 1, CatalogueSize, 0 - 2}

Watchers == 1..MaxResets

\* what _get_state and _count_enemy_princess_towers make of each frame,
\* computed once
StateOf == [f \in Frames |-> get_state(f, WIDTH, HEIGHT)]
TowersOf == [f \in Frames |-> count_enemy_princess_towers(f)]

(***************************************************************************)
(* State.  self.available_actions is assigned once, in __init__, and no    *)
(* statement of the program writes it or the list it names afterwards: it  *)
(* is the catalogue itself.                                                *)
(***************************************************************************)
available_actions == get_available_actions

(***************************************************************************)
(* Inputs of the methods studied on their own: _get_state,                 *)
(* detect_cards_in_hand, _compute_placement and count_elixir.              *)
(***************************************************************************)
\* how many units of a side a detection list holds, and how many towers
UnitCounts == {0, 1, 9, 10, 11, 12}
TowerCounts == {0, 2}

AllyAt(i) == [class |-> L_ally_knight, x |-> 10 * i, y |-> 20 * i + 5]
EnemyAt(i) == [class |-> L_enemy_archer, x |-> 1000 - 10 * i, y |-> 300 + i]
TowerAt(i) == [class |-> S_enemy_princess_tower, x |-> 300 * i, y |-> 80]

\* a call of _get_state: the capture it sees and the field size of Actions;
\* allies and enemies are the units of each side in the detection list
GetStateCall(allies, enemies, towers, width, height) ==
    [op |-> "_get_state",
     frame |-> [elixir |-> 5, predictions |-> towers \o enemies \o allies],
     width |-> width, height |-> height,
     allies |-> allies, enemies |-> enemies]

\* the detections and the field size of the encoder's worked example
ExampleCall ==
    GetStateCall(<<[class |-> L_ally_knight, x |-> 100, y |-> 200]>>,
                 <<[class |-> L_enemy_archer, x |-> 300, y |-> 400]>>,
                 <<>>, 1080, 1920)

GetStateCalls ==
    {GetStateCall([i \in 1..na |-> AllyAt(i)], [i \in 1..ne |-> EnemyAt(i)],
                  [i \in 1..nt |-> TowerAt(i)], WIDTH, HEIGHT) :
        na \in UnitCounts, ne \in UnitCounts, nt \in TowerCounts}
    \cup {ExampleCall}

\* class labels as the detection service may write them, each with the side
\* it stands for; the last detection has no label at all
LabelPool ==
    {[present |-> TRUE, side |-> "ally",
      label |-> <<"a", "l", "l", "y", " ", "k", "n", "i", "g", "h", "t">>],
     [present |-> TRUE, side |-> "ally",
      label |-> <<" ", "A", "l", "l", "y", " ", "K", "n", "i", "g", "h", "t", " ">>],
     [present |-> TRUE, side |-> "enemy",
      label |-> <<"e", "n", "e", "m", "y", " ", "a", "r", "c", "h", "e", "r">>],
     [present |-> TRUE, side |-> "enemy",
      label |-> <<"\t", "E", "N", "E", "M", "Y", " ", "a", "r", "c", "h", "e", "r", "\n">>],
     [present |-> TRUE, side |-> "none",
      label |-> <<"e", "n", "e", "m", "y", " ", "p", "r", "i", "n", "c", "e", "s", "s", " ", "t", "o", "w", "e", "r">>],
     [present |-> TRUE, side |-> "none",
      label |-> <<" ", "E", "n", "e", "m", "y", " ", "K", "i", "n", "g", " ", "T", "o", "w", "e", "r">>],
     [present |-> TRUE, side |-> "none",
      label |-> <<"a", "l", "l", "y", " ", "p", "r", "i", "n", "c", "e", "s", "s", " ", "t", "o", "w", "e", "r">>],
     [present |-> TRUE, side |-> "enemy",
      label |-> <<"e", "n", "e", "m", "y", " ", "p", "r", "i", "n", "c", "e", "s", "s", " ", "t", "o", "w", "e", "r", "s">>],
     [present |-> TRUE, side |-> "none",
      label |-> <<"k", "n", "i", "g", "h", "t">>],
     [present |-> TRUE, side |-> "none",
      label |-> <<"m", "y", " ", "a", "l", "l", "y">>],
     [present |-> TRUE, side |-> "none",
      label |-> <<>>],
     [present |-> FALSE, side |-> "none", label |-> <<>>]}
\* the i-th detection of a list, with the label l
DetectionOf(l, i) ==
    IF l.present
    THEN [class |-> l.label, x |-> 100 * i, y |-> 50 * i]
    ELSE [x |-> 100 * i, y |-> 50 * i]
\* the positions of a list of labels that stand for a side
OfSide(labels, side) == SelectSeq([i \in 1..Len(labels) |-> i],
                                  LAMBDA i : labels[i].side = side)
\* a call of _get_state on the detections labelled by labels
LabelCall(labels) ==
    [op |-> "_get_state",
     frame |-> [elixir |-> 5,
                predictions |-> [i \in 1..Len(labels) |-> DetectionOf(labels[i], i)]],
     width |-> WIDTH, height |-> HEIGHT,
     allies |-> [k \in 1..Len(OfSide(labels, "ally")) |->
                    DetectionOf(labels[OfSide(labels, "ally")[k]],
                                OfSide(labels, "ally")[k])],
     enemies |-> [k \in 1..Len(OfSide(labels, "enemy")) |->
                    DetectionOf(labels[OfSide(labels, "enemy")[k]],
                                OfSide(labels, "enemy")[k])],
     labels |-> labels]
LabelCalls ==
    {LabelCall(labels) :
        labels \in {<<a>> : a \in LabelPool}
                   \cup {<<a, b>> : a \in LabelPool, b \in LabelPool}
                   \cup {<<a, b, c>> : a \in LabelPool, b \in LabelPool,
                                       c \in LabelPool}}

\* a hand-reading pass over the card images captured (none without a screenshot)
SlotInputs == {"Knight", "Fireball", "empty", "raise"}
HandCalls ==
    {[op |-> "detect_cards_in_hand", slots |-> slots] :
        slots \in [1..num_cards -> SlotInputs] \cup {<<>>}}

\* enemy units on and off the field, and predictions that are not enemy units
FarXs == {0 - 50, 640, 2000}
FarYs == {0 - 30, 260, 900}
EnemyPool == {[class |-> L_enemy_archer, x |-> x, y |-> y] : x \in FarXs, y \in FarYs}
EnemyLists ==
    {<<>>} \cup {<<a>> : a \in EnemyPool} \cup {<<a, b>> : a \in EnemyPool, b \in EnemyPool}
OtherLists ==
    {<<>>,
     <<[class |-> S_enemy_princess_tower, x |-> 300, y |-> 80]>>,
     <<[class |-> S_enemy_princess_tower, x |-> 300, y |-> 80],
       [class |-> L_ally_knight, x |-> 640, y |-> 400]>>}
\* a call of _compute_placement: the card and self.last_predictions
PlacementCalls ==
    {[op |-> "_compute_placement", card_name |-> c, enemies |-> e,
      predictions |-> o \o e] :
        c \in {"Fireball", "Knight"}, e \in EnemyLists, o \in OtherLists}

\* pixels as PIL decodes them, <<R, G, B>>: the elixir colour, a darker
\* purple, white and black
Palette == {<<229, 128, 225>>, <<160, 60, 150>>, <<255, 255, 255>>, <<0, 0, 0>>}
LitCounts == {0, 3, 10}
ShotSizes == {<<1280, 720>>, <<600, 720>>, <<1280, 600>>}
\* a call of count_elixir: the first lit sampled pixels of one colour, the
\* others of another
ElixirCalls ==
    {[op |-> "count_elixir", device |-> d, wrap |-> wrap,
      shot |-> [width |-> size[1], height |-> size[2],
                px |-> [i \in 1..ElixirCap |-> IF i <= lit THEN a ELSE b]]] :
        d \in {"missing", "fails", "ok"}, wrap \in BOOLEAN, size \in ShotSizes,
        lit \in LitCounts, a \in Palette, b \in Palette}

\* what _get_state returns for captures of more or less elixir and of more
\* or fewer enemy units, and for a capture without predictions
RewardElixirs == {3, 7}
RewardEnemyCounts == {0, 1, 3}
RewardObservations ==
    {get_state([elixir |-> e,
                predictions |-> <<TowerAt(1)>> \o [i \in 1..n |-> EnemyAt(i)]],
               WIDTH, HEIGHT) : e \in RewardElixirs, n \in RewardEnemyCounts}
    \cup {None}
\* successive calls of _compute_reward: the observations they are given, and
\* how many of the calls have been made
RewardCalls ==
    {[op |-> "_compute_reward", states |-> states, calls |-> 0] :
        states \in {<<a>> : a \in RewardObservations}
                   \cup {<<a, b>> : a \in RewardObservations, b \in RewardObservations}}

\* indexes of the catalogue: three grid cells of each card, and the no-op
GridCells == {<<0, 0>>, <<5, 9>>, <<grid_width - 1, grid_height - 1>>}
CellIndex(card, cell) == card * (grid_width * grid_height) + cell[1] * grid_height + cell[2]
CellIndexes == {CellIndex(card, cell) : card \in 0..(num_cards - 1), cell \in GridCells}
\* hands that reach the card phase: four cards, and two
PlayHands == {<<"Fireball", "Knight", "Unknown", "Archers">>, <<"Knight", "Zap">>}
\* the card phase of step(): the index acted on, the hand and last_predictions
CardPlayCalls ==
    {[op |-> "card_play", action_index |-> index, current_cards |-> cards,
      enemies |-> e,
      predictions |-> <<[class |-> S_enemy_princess_tower, x |-> 300, y |-> 80]>> \o e] :
        index \in CellIndexes \cup {CatalogueSize - 1}, cards \in PlayHands,
        e \in EnemyLists}

UnitCalls ==
    GetStateCalls \cup LabelCalls \cup HandCalls \cup PlacementCalls
        \cup ElixirCalls \cup RewardCalls \cup CardPlayCalls

VARIABLES
    \* fields of ClashRoyaleEnv
    current_cards,                \* the hand read by the last step()
    game_over_flag,               \* "None", "victory" or "defeat"
    endgame_thread,               \* _endgame_thread: 0 (None) or a watcher
    endgame_thread_stop,          \* _endgame_thread_stop: the stop event
    prev_elixir,
    prev_enemy_presence,
    prev_enemy_princess_towers,
    match_over_detected,
    last_predictions,
    \* the threads
    watcher,                      \* the place of each watcher thread
    pc,                           \* the place of the caller's thread
    action_index,                 \* step()'s local action_index
    spell_penalty,                \* step()'s local spell_penalty
    ret,                          \* what the last finished call returned
    \* what the properties observe
    requested_index,              \* the action_index the caller passed
    overlay_prior,                \* match_over_detected on entry of step()
    played,                       \* the card_play the step issued, or None
    last_state_none,              \* the step's last _get_state returned None
    flag_writer,                  \* the watcher that last wrote game_over_flag
    bonus_count,                  \* terminal bonuses added since reset()
    polls_after_stop,             \* polls the joined watcher finished since close()
                                  \* set the stop event
    \* the process environment and the arguments of a method called on its own
    config,                       \* which settings os.getenv finds
    arg,                          \* the inputs of the method call under study
    \* the watcher's local and where the latched outcome came from
    result,                       \* _endgame_watcher's local result, per watcher
    flag_episode,                 \* the episode in which the outcome now in
                                  \* game_over_flag was detected
    failed_poll                   \* per watcher: it sleeps after a poll in which
                                  \* the detector met an error

ctl == <<current_cards, game_over_flag, endgame_thread,
         endgame_thread_stop, prev_elixir, prev_enemy_presence,
         prev_enemy_princess_towers, match_over_detected, last_predictions>>
thr == <<watcher, pc, action_index, spell_penalty, ret>>
obs == <<requested_index, overlay_prior, played, last_state_none, flag_writer,
         bonus_count, polls_after_stop>>
world == <<config, arg>>
det == <<result, flag_episode, failed_poll>>
vars == <<ctl, thr, obs, world, det>>

\* the threads reset() has started so far
Started == {w \in Watchers : watcher[w] # "unstarted"}
\* the watchers still inside _endgame_watcher
Running == {w \in Watchers : watcher[w] \in {"check", "poll", "latch", "blocked"}}

\* the episodes begun so far: reset() begins one when it is called
Episode == Cardinality(Started) + (IF pc = "reset_start" THEN 1 ELSE 0)

\* os.getenv: TRUE for a variable that is set and not empty
Settings == [api_key : BOOLEAN, troop : BOOLEAN, card : BOOLEAN]

\* __init__: setup_roboflow and setup_card_roboflow raise ValueError without
\* ROBOFLOW_API_KEY; nothing else is read at construction
construct(c) == IF c.api_key THEN "ok" ELSE "ValueError"

\* no method is called on its own
NoCall == [op |-> "none"]

\* the watcher's local result before detect_game_end() has returned an outcome
NoResult == [outcome |-> "None", episode |-> 0]

Returned(kind, o, reward, done, status) ==
    [kind |-> kind, obs |-> o, reward |-> reward, done |-> done, status |-> status]
\* no call has returned since the running call began
Pending == Returned("pending", None, 0, FALSE, "ok")

\* the locals of a step() that has returned, and what was observed of them
StepLocalsDone ==
    /\ action_index' = 0
    /\ spell_penalty' = 0
    /\ requested_index' = 0
    /\ overlay_prior' = FALSE
    /\ played' = None

\* the fields as __init__ leaves them, and no thread started
Constructed ==
    /\ current_cards = <<>>
    /\ game_over_flag = "None"
    /\ endgame_thread = 0
    /\ endgame_thread_stop = FALSE
    /\ prev_elixir = None
    /\ prev_enemy_presence = None
    /\ prev_enemy_princess_towers = None
    /\ match_over_detected = FALSE
    /\ last_predictions = <<>>
    /\ watcher = [w \in Watchers |-> "unstarted"]
    /\ pc = "idle"
    /\ action_index = 0
    /\ spell_penalty = 0
    /\ ret = Pending
    /\ requested_index = 0
    /\ overlay_prior = FALSE
    /\ played = None
    /\ last_state_none = FALSE
    /\ flag_writer = 0
    /\ bonus_count = 0
    /\ polls_after_stop = 0
    /\ result = [w \in Watchers |-> NoResult]
    /\ flag_episode = 0
    /\ failed_poll = [w \in Watchers |-> FALSE]

\* a controller exists only where __init__ did not raise
Init ==
    /\ Constructed
    /\ config \in {c \in Settings : construct(c) = "ok"}
    /\ arg = NoCall

(***************************************************************************)
(* reset(), in the order of its statements.                                *)
(***************************************************************************)
\* a reset() that forgets _endgame_thread_stop.clear()
ResetClear_KeepsStop ==
    /\ pc = "idle"
    /\ Cardinality(Started) < MaxResets
    /\ game_over_flag' = "None"
    /\ bonus_count' = 0
    /\ flag_writer' = 0
    /\ last_state_none' = FALSE
    /\ pc' = "reset_start"
    /\ UNCHANGED <<current_cards, endgame_thread, endgame_thread_stop, prev_elixir,
                   prev_enemy_presence, prev_enemy_princess_towers,
                   match_over_detected, last_predictions>>
    /\ UNCHANGED <<watcher, action_index, spell_penalty, ret>>
    /\ UNCHANGED <<requested_index, overlay_prior, played, polls_after_stop>>
    /\ flag_episode' = 0
    /\ UNCHANGED <<config, arg, result, failed_poll>>

\* game_over_flag = None; _endgame_thread_stop.clear()
ResetClear ==
    /\ pc = "idle"
    /\ Cardinality(Started) < MaxResets
    /\ game_over_flag' = "None"
    /\ endgame_thread_stop' = FALSE
    /\ bonus_count' = 0
    /\ flag_writer' = 0
    /\ last_state_none' = FALSE
    /\ pc' = "reset_start"
    /\ UNCHANGED <<current_cards, endgame_thread, prev_elixir,
                   prev_enemy_presence, prev_enemy_princess_towers,
                   match_over_detected, last_predictions>>
    /\ UNCHANGED <<watcher, action_index, spell_penalty, ret>>
    /\ UNCHANGED <<requested_index, overlay_prior, played, polls_after_stop>>
    /\ flag_episode' = 0
    /\ UNCHANGED <<config, arg, result, failed_poll>>

\* _endgame_thread = Thread(target=_endgame_watcher); _endgame_thread.start()
ResetStart ==
    /\ pc = "reset_start"
    /\ LET new == Cardinality(Started) + 1
       IN /\ watcher' = [watcher EXCEPT ![new] = "check"]
          /\ endgame_thread' = new
    /\ polls_after_stop' = 0
    /\ pc' = "reset_rest"
    /\ UNCHANGED <<current_cards, game_over_flag,
                   endgame_thread_stop, prev_elixir, prev_enemy_presence,
                   prev_enemy_princess_towers, match_over_detected, last_predictions>>
    /\ UNCHANGED <<action_index, spell_penalty, ret>>
    /\ UNCHANGED <<requested_index, overlay_prior, played, last_state_none,
                   flag_writer, bonus_count>>
    /\ UNCHANGED <<config, arg, result, flag_episode, failed_poll>>

\* the rest of reset(): the carried-over memory, and the first observation
ResetRest(towers_frame, state_frame) ==
    /\ pc = "reset_rest"
    /\ prev_elixir' = None
    /\ prev_enemy_presence' = None
    /\ IF config.troop
       THEN /\ prev_enemy_princess_towers' = Some(TowersOf[towers_frame])
            /\ match_over_detected' = FALSE
            /\ last_predictions' = predictions_after(last_predictions, state_frame)
            /\ ret' = Returned("reset", StateOf[state_frame], 0, FALSE, "ok")
       ELSE \* _count_enemy_princess_towers raises without WORKSPACE_TROOP_DETECTION
            /\ ret' = Returned("reset", None, 0, FALSE, "ValueError")
            /\ UNCHANGED <<prev_enemy_princess_towers, match_over_detected,
                           last_predictions>>
    /\ pc' = "idle"
    /\ UNCHANGED <<current_cards, game_over_flag, endgame_thread,
                   endgame_thread_stop>>
    /\ UNCHANGED <<watcher, action_index, spell_penalty>>
    /\ UNCHANGED obs
    /\ UNCHANGED <<config, arg, result, flag_episode, failed_poll>>

(***************************************************************************)
(* close(): set the stop event, then join the thread _endgame_thread names. *)
(***************************************************************************)
CloseSet ==
    /\ pc = "idle"
    /\ endgame_thread_stop' = TRUE
    /\ polls_after_stop' = 0
    /\ IF endgame_thread = 0
       THEN /\ pc' = "idle"
            /\ ret' = Returned("close", None, 0, FALSE, "ok")
       ELSE /\ pc' = "joining"
            /\ ret' = Pending
    /\ UNCHANGED <<current_cards, game_over_flag, endgame_thread,
                   prev_elixir, prev_enemy_presence, prev_enemy_princess_towers,
                   match_over_detected, last_predictions>>
    /\ last_state_none' = FALSE
    /\ UNCHANGED <<watcher, action_index, spell_penalty>>
    /\ UNCHANGED <<requested_index, overlay_prior, played, flag_writer, bonus_count>>
    /\ UNCHANGED <<config, arg, result, flag_episode, failed_poll>>

\* _endgame_thread.join() returns once that thread has ended
CloseJoin ==
    /\ pc = "joining"
    /\ watcher[endgame_thread] = "done"
    /\ pc' = "idle"
    /\ ret' = Returned("close", None, 0, FALSE, "ok")
    /\ polls_after_stop' = 0
    /\ UNCHANGED ctl
    /\ UNCHANGED <<watcher, action_index, spell_penalty>>
    /\ UNCHANGED <<requested_index, overlay_prior, played, last_state_none,
                   flag_writer, bonus_count>>
    /\ UNCHANGED <<config, arg, result, flag_episode, failed_poll>>

(***************************************************************************)
(* _endgame_watcher, one thread per reset().                               *)
(***************************************************************************)
\* a loop that never tests the stop event: while True
WatcherCheck_IgnoresStop(w) ==
    /\ watcher[w] = "check"
    /\ watcher' = [watcher EXCEPT ![w] = "poll"]
    /\ UNCHANGED ctl
    /\ UNCHANGED <<pc, action_index, spell_penalty, ret>>
    /\ UNCHANGED obs
    /\ failed_poll' = [failed_poll EXCEPT ![w] = FALSE]
    /\ UNCHANGED <<config, arg, result, flag_episode>>

\* while not self._endgame_thread_stop.is_set()
WatcherCheck(w) ==
    /\ watcher[w] = "check"
    /\ watcher' = [watcher EXCEPT ![w] = IF endgame_thread_stop THEN "done" ELSE "poll"]
    /\ UNCHANGED ctl
    /\ UNCHANGED <<pc, action_index, spell_penalty, ret>>
    /\ UNCHANGED obs
    /\ failed_poll' = [failed_poll EXCEPT ![w] = FALSE]
    /\ UNCHANGED <<config, arg, result, flag_episode>>

\* result = detect_game_end() returns: an outcome to latch, or sleep and test again
WatcherPoll(w, finds) ==
    /\ watcher[w] = "poll"
    /\ LET outcome == detect_game_end(finds)
       IN IF outcome # "None"
          THEN /\ result' = [result EXCEPT ![w] = [outcome |-> outcome,
                                                    episode |-> Episode]]
               /\ watcher' = [watcher EXCEPT ![w] = "latch"]
          ELSE /\ watcher' = [watcher EXCEPT ![w] = "check"]
               /\ UNCHANGED result
    /\ polls_after_stop' =
          IF endgame_thread_stop /\ w = endgame_thread /\ polls_after_stop < PollCap
          THEN polls_after_stop + 1
          ELSE polls_after_stop
    /\ UNCHANGED ctl
    /\ UNCHANGED <<pc, action_index, spell_penalty, ret>>
    /\ UNCHANGED <<requested_index, overlay_prior, played, last_state_none,
                   flag_writer, bonus_count>>
    /\ failed_poll' = [failed_poll EXCEPT ![w] = detector_fails(finds)]
    /\ UNCHANGED <<config, arg, flag_episode>>

\* a watcher that writes the outcome and goes on with its loop
WatcherLatch_KeepsPolling(w) ==
    /\ watcher[w] = "latch"
    /\ game_over_flag' = result[w].outcome
    /\ flag_writer' = w
    /\ flag_episode' = result[w].episode
    /\ result' = [result EXCEPT ![w] = NoResult]
    /\ watcher' = [watcher EXCEPT ![w] = "check"]
    /\ UNCHANGED <<current_cards, endgame_thread,
                   endgame_thread_stop, prev_elixir, prev_enemy_presence,
                   prev_enemy_princess_towers, match_over_detected, last_predictions>>
    /\ UNCHANGED <<pc, action_index, spell_penalty, ret>>
    /\ UNCHANGED <<requested_index, overlay_prior, played, last_state_none,
                   bonus_count, polls_after_stop>>
    /\ UNCHANGED <<config, arg, failed_poll>>

\* if result: self.game_over_flag = result; break
WatcherLatch(w) ==
    /\ watcher[w] = "latch"
    /\ game_over_flag' = result[w].outcome
    /\ flag_writer' = w
    /\ flag_episode' = result[w].episode
    /\ result' = [result EXCEPT ![w] = NoResult]
    /\ watcher' = [watcher EXCEPT ![w] = "done"]
    /\ UNCHANGED <<current_cards, endgame_thread,
                   endgame_thread_stop, prev_elixir, prev_enemy_presence,
                   prev_enemy_princess_towers, match_over_detected, last_predictions>>
    /\ UNCHANGED <<pc, action_index, spell_penalty, ret>>
    /\ UNCHANGED <<requested_index, overlay_prior, played, last_state_none,
                   bonus_count, polls_after_stop>>
    /\ UNCHANGED <<config, arg, failed_poll>>

\* the call of detect_game_end() never returns (the device does not answer)
WatcherHang(w) ==
    /\ watcher[w] = "poll"
    /\ watcher' = [watcher EXCEPT ![w] = "blocked"]
    /\ UNCHANGED ctl
    /\ UNCHANGED <<pc, action_index, spell_penalty, ret>>
    /\ UNCHANGED obs
    /\ UNCHANGED <<config, arg, result, flag_episode, failed_poll>>

(***************************************************************************)
(* step(action_index), in the order of its statements.  Each call of the   *)
(* detection service sees a frame of its own.                              *)
(***************************************************************************)
SpellRadius == 100
SpellPenalty == 5
TowerBonus == 20
TerminalBonus == 100

\* a bonus that forgets the sign of a defeat
terminal_bonus_Unsigned(outcome) ==
    IF outcome \in {"victory", "defeat"} THEN TerminalBonus * Scale ELSE 0

\* if result == "victory": reward += 100 / elif result == "defeat": reward -= 100
terminal_bonus(outcome) ==
    IF outcome = "victory" THEN TerminalBonus * Scale
    ELSE IF outcome = "defeat" THEN 0 - TerminalBonus * Scale
    ELSE 0

\* a bonus also given when the count has not changed
princess_tower_reward_NotStrict(current, previous) ==
    IF previous # None /\ current <= previous[1] THEN TowerBonus * Scale ELSE 0

\* princess_tower_reward: 20 when a previous count is stored and the current
\* count is smaller
princess_tower_reward(current, previous) ==
    IF previous # None
    THEN IF current < previous[1] THEN TowerBonus * Scale ELSE 0
    ELSE 0

\* a substitution that forgets the latch: only an overlay seen by this very
\* call forces the no-op
ForcedIndex_UnlessLatched(index, latched, overlay) ==
    IF overlay /\ ~latched THEN Len(available_actions) - 1 ELSE index

\* if self.match_over_detected: action_index = len(self.available_actions) - 1
ForcedIndex(index, latched, overlay) ==
    IF latched \/ overlay THEN Len(available_actions) - 1 ELSE index

\* the overlay test, the substitution of the no-op, the test of game_over_flag
StepBegin(index, overlay) ==
    /\ pc = "idle"
    /\ match_over_detected' = (match_over_detected \/ overlay)
    /\ action_index' = ForcedIndex(index, match_over_detected, overlay)
    /\ pc' = IF game_over_flag # "None" THEN "step_terminal" ELSE "step_hand"
    /\ spell_penalty' = 0
    /\ requested_index' = index
    /\ overlay_prior' = match_over_detected
    /\ played' = None
    /\ last_state_none' = FALSE
    /\ UNCHANGED <<current_cards, game_over_flag, endgame_thread,
                   endgame_thread_stop, prev_elixir, prev_enemy_presence,
                   prev_enemy_princess_towers, last_predictions>>
    /\ ret' = Pending
    /\ UNCHANGED watcher
    /\ UNCHANGED <<flag_writer, bonus_count, polls_after_stop>>
    /\ UNCHANGED <<config, arg, result, flag_episode, failed_poll>>

\* the terminal branch: the reward of the current observation and the bonus
StepTerminal(reward_frame, state_frame) ==
    /\ pc = "step_terminal"
    /\ IF config.troop
       THEN LET r == compute_reward(StateOf[reward_frame], prev_elixir,
                                    prev_enemy_presence)
                bonus == terminal_bonus(game_over_flag)
            IN /\ prev_elixir' = r.prev_elixir
               /\ prev_enemy_presence' = r.prev_enemy_presence
               /\ ret' = Returned("step", StateOf[state_frame], r.reward + bonus,
                                  TRUE, "ok")
               /\ bonus_count' = IF bonus # 0 /\ bonus_count < BonusCap
                                 THEN bonus_count + 1
                                 ELSE bonus_count
               /\ match_over_detected' = FALSE
               /\ last_predictions' =
                     predictions_after(predictions_after(last_predictions,
                                                         reward_frame), state_frame)
               /\ last_state_none' = (StateOf[state_frame] = None)
       ELSE \* _get_state raises without WORKSPACE_TROOP_DETECTION
            /\ ret' = Returned("step", None, 0, FALSE, "ValueError")
            /\ UNCHANGED <<prev_elixir, prev_enemy_presence, bonus_count,
                           match_over_detected, last_predictions, last_state_none>>
    /\ pc' = "idle"
    /\ StepLocalsDone
    /\ UNCHANGED <<current_cards, game_over_flag, endgame_thread,
                   endgame_thread_stop, prev_enemy_princess_towers>>
    /\ UNCHANGED watcher
    /\ UNCHANGED <<flag_writer, polls_after_stop>>
    /\ UNCHANGED <<config, arg, result, flag_episode, failed_poll>>

\* current_cards = detect_cards_in_hand(), and the test of an all-Unknown hand
StepHand(slots) ==
    /\ pc = "step_hand"
    /\ current_cards' = detect_cards_in_hand(slots, config.card)
    /\ pc' = IF \A i \in 1..Len(current_cards') : current_cards'[i] = "Unknown"
             THEN "step_skip"
             ELSE "step_play"
    /\ UNCHANGED <<game_over_flag, endgame_thread,
                   endgame_thread_stop, prev_elixir, prev_enemy_presence,
                   prev_enemy_princess_towers, match_over_detected, last_predictions>>
    /\ UNCHANGED <<watcher, action_index, spell_penalty, ret>>
    /\ UNCHANGED obs
    /\ UNCHANGED <<config, arg, result, flag_episode, failed_poll>>

\* a skipped step that rewards the observation it returns
StepSkip_Rewards(state_frame) ==
    /\ pc = "step_skip"
    /\ IF config.troop
       THEN LET r == compute_reward(StateOf[state_frame], prev_elixir,
                                    prev_enemy_presence)
            IN /\ last_predictions' = predictions_after(last_predictions, state_frame)
               /\ last_state_none' = (StateOf[state_frame] = None)
               /\ prev_elixir' = r.prev_elixir
               /\ prev_enemy_presence' = r.prev_enemy_presence
               /\ ret' = Returned("step", StateOf[state_frame], r.reward, FALSE, "ok")
       ELSE /\ ret' = Returned("step", None, 0, FALSE, "ValueError")
            /\ UNCHANGED <<last_predictions, last_state_none, prev_elixir,
                           prev_enemy_presence>>
    /\ pc' = "idle"
    /\ StepLocalsDone
    /\ UNCHANGED <<current_cards, game_over_flag, endgame_thread,
                   endgame_thread_stop, prev_enemy_princess_towers,
                   match_over_detected>>
    /\ UNCHANGED watcher
    /\ UNCHANGED <<flag_writer, bonus_count, polls_after_stop>>
    /\ UNCHANGED <<config, arg, result, flag_episode, failed_poll>>

\* the all-Unknown hand: no move, reward 0
StepSkip(state_frame) ==
    /\ pc = "step_skip"
    /\ IF config.troop
       THEN /\ last_predictions' = predictions_after(last_predictions, state_frame)
            /\ last_state_none' = (StateOf[state_frame] = None)
            /\ ret' = Returned("step", StateOf[state_frame], 0, FALSE, "ok")
       ELSE \* _get_state raises without WORKSPACE_TROOP_DETECTION
            /\ ret' = Returned("step", None, 0, FALSE, "ValueError")
            /\ UNCHANGED <<last_predictions, last_state_none>>
    /\ pc' = "idle"
    /\ StepLocalsDone
    /\ UNCHANGED <<current_cards, game_over_flag, endgame_thread,
                   endgame_thread_stop, prev_elixir, prev_enemy_presence,
                   prev_enemy_princess_towers, match_over_detected>>
    /\ UNCHANGED watcher
    /\ UNCHANGED <<flag_writer, bonus_count, polls_after_stop>>
    /\ UNCHANGED <<config, arg, result, flag_episode, failed_poll>>

\* a card play at the grid cell of the action
card_play_of_AtCell(index, cards, predictions) ==
    LET action == PyIndex(available_actions, index)
        card_index == action[1]
    IN IF card_index # -1 /\ card_index < Len(cards)
       THEN <<(action[2][1] * WIDTH) \div action[2][2] + TOP_LEFT_X,
              (action[3][1] * HEIGHT) \div action[3][2] + TOP_LEFT_Y,
              card_index>>
       ELSE None

\* the card_play(x, y, card_index) that step() issues for an index of the
\* catalogue, a hand and the tracked predictions, or None when it issues none
card_play_of(index, cards, predictions) ==
    LET action == PyIndex(available_actions, index)
        card_index == action[1]
    IN IF card_index # -1 /\ card_index < Len(cards)
       THEN LET card_name == PyIndex(cards, card_index)
                target == compute_placement(card_name, predictions)
            IN <<ToPixels(target[1], WIDTH) + TOP_LEFT_X,
                 ToPixels(target[2], HEIGHT) + TOP_LEFT_Y,
                 card_index>>
       ELSE None

\* the enemy positions step() reads back from the observation, in pixels
EnemyPixels(state) ==
    LET first == 2 + 2 * MAX_ALLIES
        slot(k) == <<state[first + 2 * (k - 1)], state[first + 2 * (k - 1) + 1]>>
        seen(k) == slot(k)[1] # 0 \/ slot(k)[2] # 0
    IN {<<ToPixels(slot(k)[1], WIDTH), ToPixels(slot(k)[2], HEIGHT)>> :
            k \in {j \in 1..MAX_ENEMIES : seen(j)}}

\* any(((ex - x) ** 2 + (ey - y) ** 2) ** 0.5 < radius ...)
FoundEnemy(state, x, y) ==
    \E e \in EnemyPixels(state) :
        (e[1] - x) * (e[1] - x) + (e[2] - y) * (e[2] - y) < SpellRadius * SpellRadius

\* step() raises: the call ends, and what it has done so far stays done
StepRaises(status) ==
    /\ ret' = Returned("step", None, 0, FALSE, status)
    /\ pc' = "idle"
    /\ StepLocalsDone

\* the action of the catalogue, the card play, and the spell penalty
StepPlay(spell_frame) ==
    /\ pc = "step_play"
    /\ IF ~IndexInRange(available_actions, action_index)
       THEN /\ StepRaises("IndexError")
            /\ UNCHANGED <<last_predictions, last_state_none>>
       ELSE LET action == PyIndex(available_actions, action_index)
                card_index == action[1]
            IN IF card_index # -1 /\ card_index < Len(current_cards)
               THEN LET card_name == PyIndex(current_cards, card_index)
                        play == card_play_of(action_index, current_cards,
                                             last_predictions)
                        x == play[1]
                        y == play[2]
                        state == StateOf[spell_frame]
                    IN IF card_name \in SPELL_CARDS /\ ~config.troop
                       THEN \* _get_state raises without WORKSPACE_TROOP_DETECTION
                            /\ StepRaises("ValueError")
                            /\ UNCHANGED <<last_predictions, last_state_none>>
                       ELSE IF card_name \in SPELL_CARDS
                       THEN /\ last_predictions' =
                                  predictions_after(last_predictions, spell_frame)
                            /\ last_state_none' = (state = None)
                            /\ IF state = None
                               THEN StepRaises("TypeError")
                               ELSE /\ played' = play
                                    /\ spell_penalty' =
                                          IF FoundEnemy(state, x, y)
                                          THEN 0
                                          ELSE 0 - SpellPenalty * Scale
                                    /\ pc' = "step_finish"
                                    /\ UNCHANGED <<ret, action_index, requested_index,
                                                   overlay_prior>>
                       ELSE /\ played' = play
                            /\ pc' = "step_finish"
                            /\ UNCHANGED <<spell_penalty, last_predictions,
                                           last_state_none, ret, action_index,
                                           requested_index, overlay_prior>>
               ELSE /\ pc' = "step_finish"
                    /\ UNCHANGED <<played, spell_penalty, last_predictions,
                                   last_state_none, ret, action_index,
                                   requested_index, overlay_prior>>
    /\ UNCHANGED <<current_cards, game_over_flag, endgame_thread,
                   endgame_thread_stop, prev_elixir, prev_enemy_presence,
                   prev_enemy_princess_towers, match_over_detected>>
    /\ UNCHANGED watcher
    /\ UNCHANGED <<flag_writer, bonus_count, polls_after_stop>>
    /\ UNCHANGED <<config, arg, result, flag_episode, failed_poll>>

\* the princess-tower check, the reward, and the observation returned
StepFinish(towers_frame, reward_frame, state_frame) ==
    /\ pc = "step_finish"
    /\ IF config.troop
       THEN LET current == TowersOf[towers_frame]
                tower_reward == princess_tower_reward(current,
                                                      prev_enemy_princess_towers)
                r == compute_reward(StateOf[reward_frame], prev_elixir,
                                    prev_enemy_presence)
            IN /\ prev_enemy_princess_towers' = Some(current)
               /\ prev_elixir' = r.prev_elixir
               /\ prev_enemy_presence' = r.prev_enemy_presence
               /\ ret' = Returned("step", StateOf[state_frame],
                                  r.reward + spell_penalty + tower_reward, FALSE, "ok")
               /\ last_predictions' =
                     predictions_after(predictions_after(last_predictions,
                                                         reward_frame), state_frame)
               /\ last_state_none' = (StateOf[state_frame] = None)
       ELSE \* _count_enemy_princess_towers raises without WORKSPACE_TROOP_DETECTION
            /\ ret' = Returned("step", None, 0, FALSE, "ValueError")
            /\ UNCHANGED <<prev_enemy_princess_towers, prev_elixir,
                           prev_enemy_presence, last_predictions, last_state_none>>
    /\ pc' = "idle"
    /\ StepLocalsDone
    /\ UNCHANGED <<current_cards, game_over_flag, endgame_thread,
                   endgame_thread_stop, match_over_detected>>
    /\ UNCHANGED watcher
    /\ UNCHANGED <<flag_writer, bonus_count, polls_after_stop>>
    /\ UNCHANGED <<config, arg, result, flag_episode, failed_poll>>

(***************************************************************************)
(* A method called on its own, on a controller just constructed.           *)
(***************************************************************************)
\* what a method called on its own leaves alone
OnlyReturns ==
    /\ UNCHANGED <<current_cards, game_over_flag, endgame_thread,
                   endgame_thread_stop, prev_elixir, prev_enemy_presence,
                   prev_enemy_princess_towers, match_over_detected>>
    /\ UNCHANGED <<watcher, pc, action_index, spell_penalty>>
    /\ UNCHANGED obs
    /\ UNCHANGED world
    /\ UNCHANGED det

\* state = self._get_state()
CallGetState ==
    /\ arg.op = "_get_state"
    /\ ret = Pending
    /\ IF config.troop
       THEN /\ ret' = Returned("_get_state",
                               get_state(arg.frame, arg.width, arg.height),
                               0, FALSE, "ok")
            /\ last_predictions' = predictions_after(last_predictions, arg.frame)
       ELSE /\ ret' = Returned("_get_state", None, 0, FALSE, "ValueError")
            /\ UNCHANGED last_predictions
    /\ OnlyReturns

\* cards = self.detect_cards_in_hand()
CallDetectCards ==
    /\ arg.op = "detect_cards_in_hand"
    /\ ret = Pending
    /\ ret' = Returned("detect_cards_in_hand",
                       detect_cards_in_hand(arg.slots, config.card), 0, FALSE, "ok")
    /\ UNCHANGED last_predictions
    /\ OnlyReturns

\* self._compute_placement(card_name), with arg.predictions tracked
CallComputePlacement ==
    /\ arg.op = "_compute_placement"
    /\ ret = Pending
    /\ ret' = Returned("_compute_placement",
                       compute_placement(arg.card_name, arg.predictions),
                       0, FALSE, "ok")
    /\ UNCHANGED last_predictions
    /\ OnlyReturns

\* self.actions.count_elixir()
CallCountElixir ==
    /\ arg.op = "count_elixir"
    /\ ret = Pending
    /\ ret' = Returned("count_elixir",
                       count_elixir(arg.device, arg.shot, arg.wrap), 0, FALSE, "ok")
    /\ UNCHANGED last_predictions
    /\ OnlyReturns

\* the card phase of step(), from the catalogue lookup to card_play
CallCardPlay ==
    /\ arg.op = "card_play"
    /\ ret = Pending
    /\ ret' = Returned("card_play",
                       card_play_of(arg.action_index, arg.current_cards,
                                    arg.predictions), 0, FALSE, "ok")
    /\ UNCHANGED last_predictions
    /\ OnlyReturns

\* reward = self._compute_reward(state), for the next observation of the call
CallComputeReward ==
    /\ arg.op = "_compute_reward"
    /\ pc = "idle"
    /\ arg.calls < Len(arg.states)
    /\ LET r == compute_reward(arg.states[arg.calls + 1], prev_elixir,
                               prev_enemy_presence)
       IN /\ prev_elixir' = r.prev_elixir
          /\ prev_enemy_presence' = r.prev_enemy_presence
          /\ ret' = Returned("_compute_reward", None, r.reward, FALSE, "ok")
    /\ arg' = [arg EXCEPT !.calls = @ + 1]
    /\ UNCHANGED <<current_cards, game_over_flag, endgame_thread,
                   endgame_thread_stop, prev_enemy_princess_towers,
                   match_over_detected, last_predictions>>
    /\ UNCHANGED <<watcher, pc, action_index, spell_penalty>>
    /\ UNCHANGED obs
    /\ UNCHANGED config
    /\ UNCHANGED det

\* reset(), called before or between the calls of _compute_reward
CallReset ==
    /\ arg.op = "_compute_reward"
    /\ \/ ResetClear
       \/ ResetStart
       \/ \E f1 \in Frames, f2 \in Frames : ResetRest(f1, f2)

(***************************************************************************)
(* The specifications.                                                     *)
(***************************************************************************)
\* the calls the caller makes, when it makes any
Call ==
    \/ ResetClear
    \/ CloseSet
    \/ \E index \in RequestedIndexes, overlay \in BOOLEAN : StepBegin(index, overlay)

\* the caller's thread inside reset(), close() or step()
Proceed ==
    \/ ResetStart
    \/ \E f1 \in Frames, f2 \in Frames : ResetRest(f1, f2)
    \/ CloseJoin
    \/ \E f1 \in Frames, f2 \in Frames : StepTerminal(f1, f2)
    \/ \E slots \in HandInputs : StepHand(slots)
    \/ \E f \in Frames : StepSkip(f)
    \/ \E f \in Frames : StepPlay(f)
    \/ \E f1 \in Frames, f2 \in Frames, f3 \in Frames : StepFinish(f1, f2, f3)

\* a watcher thread: the loop test, and a poll that returns or never does
Watch(w) ==
    \/ WatcherCheck(w)
    \/ \E finds \in FindInputs : WatcherPoll(w, finds)
    \/ WatcherLatch(w)
    \/ WatcherHang(w)

Next ==
    \/ Call
    \/ Proceed
    \/ \E w \in Watchers : Watch(w)

Spec == Init /\ [][Next]_vars

\* one method called on its own, with inputs of its own
UnitInit ==
    /\ Constructed
    /\ config \in {c \in Settings : construct(c) = "ok"}
    /\ arg \in UnitCalls

UnitNext ==
    \/ CallGetState
    \/ CallDetectCards
    \/ CallComputePlacement
    \/ CallCountElixir
    \/ CallComputeReward
    \/ CallReset
    \/ CallCardPlay

UnitSpec == UnitInit /\ [][UnitNext]_vars

\* Every thread that can run does run: the caller's thread goes on inside a
\* call it has begun, and a watcher goes on with its loop.  Nothing makes the
\* caller begin a call, and nothing makes detect_game_end() return.
FairSpec ==
    /\ Spec
    /\ WF_vars(Proceed)
    /\ \A w \in Watchers : WF_vars(Watch(w))

(***************************************************************************)
(* The properties.                                                         *)
(***************************************************************************)
\* the caller's thread is inside step()
InStep == pc \in {"step_terminal", "step_hand", "step_skip", "step_play", "step_finish"}
\* the last index of the catalogue, where the no-op is
NoOpIndex == Len(available_actions) - 1
\* an action_index that is no index of the catalogue
OutOfRange(index) == index < 0 \/ index > NoOpIndex
\* the hand holds a card that step() would play
PlayableHand == \E i \in 1..Len(current_cards) : current_cards[i] # "Unknown"
\* the thread close() joins is blocked inside detect_game_end()
JoinedBlocked == endgame_thread # 0 /\ watcher[endgame_thread] = "blocked"

\* C1: while the match-over overlay is latched, a step() acts on the no-op,
\* the last entry of the catalogue, whatever index the caller passed, and
\* issues no card play.
C1_OverlayForcesNoOp ==
    (InStep /\ match_over_detected) =>
        /\ action_index = NoOpIndex
        /\ PyIndex(available_actions, action_index) = NoOpAction
        /\ played = None

\* a step() entered with the overlay already latched, asked for card 0 with a
\* playable hand, has passed the card play
C1_Witness ==
    /\ pc = "step_finish"
    /\ match_over_detected /\ overlay_prior
    /\ requested_index = 0
    /\ PlayableHand

\* C2: a step() that returns done = true leaves the terminal-outcome flag
\* cleared.
C2_TerminalStepClearsFlag ==
    [][(pc = "step_terminal" /\ pc' = "idle") => game_over_flag' = "None"]_vars

\* C3: between a reset() and the next, the terminal bonus is added to the
\* reward of at most one step().
C3_BonusAtMostOnce == bonus_count <= 1

\* C4: when close() has returned, no watcher thread is inside
\* _endgame_watcher.
C4_CloseLeavesNoWatcher ==
    (pc = "idle" /\ ret.kind = "close") => Running = {}

\* C5: a close() that waits for the watcher returns, also when the watcher
\* is blocked inside detect_game_end().
C5_CloseReturns == (pc = "joining") ~> (pc = "idle")

\* C6: once close() has set the stop event, the watcher it joins finishes at
\* most one more poll, and close() returns unless that watcher is blocked
\* inside a poll that never returns.
C6_StopEndsWatcher ==
    /\ [](polls_after_stop <= 1)
    /\ (pc = "joining") ~> (pc = "idle" \/ JoinedBlocked)

\* close() waits, and the watcher it joins has finished one more poll, which
\* reported nothing, and has left its loop
C6_Witness ==
    /\ pc = "joining"
    /\ polls_after_stop = 1
    /\ watcher[endgame_thread] = "done"
    /\ game_over_flag = "None"

\* C7: reset() clears the stop event and the flag before it starts the
\* watcher: while reset() runs on after starting its watcher the stop event
\* is clear, and no outcome that watcher has latched is erased.
C7_ResetClearsBeforeStart ==
    /\ [](pc = "reset_rest" => ~endgame_thread_stop)
    /\ [][(game_over_flag # "None" /\ game_over_flag' = "None")
            => ~(pc = "reset_rest" /\ flag_writer = endgame_thread)]_vars

\* a reset() called after a close(): its watcher has already latched an
\* outcome while reset() is still running
C7_Witness ==
    /\ pc = "reset_rest"
    /\ ret.kind = "close"
    /\ game_over_flag # "None"
    /\ flag_writer = endgame_thread

\* C8: when the last _get_state call of a step() met no predictions, the
\* step() has returned normally and its observation is None.
C8_NoObservationPassedThrough ==
    (pc = "idle" /\ ret.kind = "step" /\ last_state_none) =>
        (ret.status = "ok" /\ ret.obs = None)

\* what the catalogue is claimed to be, entry by entry
CatalogueAsClaimed ==
    /\ Len(available_actions) = num_cards * grid_width * grid_height + 1
    /\ Len(available_actions) = 2017
    /\ \A c \in 0..3, gx \in 0..17, gy \in 0..27 :
          available_actions[c * (18 * 28) + gx * 28 + gy + 1]
              = <<c, <<gx, 17>>, <<gy, 27>>>>
    /\ available_actions[2017] = <<-1, <<0, 1>>, <<0, 1>>>>

\* C9: the catalogue has 2017 entries, entry c*(18*28) + gx*28 + gy is
\* (c, gx/17, gy/27) and the last one is the no-op (-1, 0, 0); the card a
\* step() plays for an index of the catalogue is the card of that entry.
C9_Catalogue ==
    /\ CatalogueAsClaimed
    /\ (InStep /\ played # None /\ action_index >= 0) =>
          played[3] = action_index \div (18 * 28)

\* a step() asked for the first cell of card 3 has played card 3
C9_Witness ==
    /\ pc = "step_finish"
    /\ requested_index = 3 * (18 * 28)
    /\ played # None
    /\ played[3] = 3

\* C10: a step() called with an index outside the catalogue plays no card,
\* executes no action looked up with that index, and ends with an error.
C10_OutOfRangeIsError ==
    /\ [](OutOfRange(requested_index) =>
            /\ played = None
            /\ ~(pc = "step_finish" /\ action_index = requested_index))
    /\ [][(InStep /\ OutOfRange(requested_index) /\ pc' = "idle")
            => ret'.status = "IndexError"]_vars

(***************************************************************************)
(* The state encoder called on its own.                                    *)
(***************************************************************************)
\* _get_state was called on a detection list that is not empty, and returned
Encoded == arg.op = "_get_state" /\ ret.kind = "_get_state" /\ ret.status = "ok"
                /\ arg.frame.predictions # <<>>

\* the k-th pair of the block of a side that begins after `before` elements
PairAt(out, before, k) == <<out[before + 2 * k - 1], out[before + 2 * k]>>

\* (x / width, y / height) in units of 1 / (width * height), from the division
InField(unit, width, height) == <<unit.x * height, unit.y * width>>

\* the block of `slots` pairs after `before` elements holds the first units
\* of the side in their order, then (0.0, 0.0) in every slot left
BlockHolds(out, before, units, slots) ==
    \A k \in 1..slots :
        PairAt(out, before, k) =
            IF k <= Len(units) THEN InField(units[k], arg.width, arg.height)
            ELSE <<0, 0>>

\* C11: for every detection list that is not empty, with no unit, fewer than
\* ten, exactly ten or more than ten units on a side, the observation has
\* 1 + 2 * (10 + 10) = 41 elements; the ally block and the enemy block hold
\* the first ten units of their side, every slot beyond the detected units
\* is exactly (0.0, 0.0), and units beyond the tenth are dropped.
C11_ObservationShape ==
    Encoded =>
        /\ Len(ret.obs) = 41
        /\ BlockHolds(ret.obs, 1, arg.allies, 10)
        /\ BlockHolds(ret.obs, 21, arg.enemies, 10)

\* a list with more than ten allies and fewer than ten enemies was encoded
C11_Witness ==
    /\ Encoded
    /\ Len(arg.allies) > MAX_ALLIES
    /\ Len(arg.enemies) \in 1..(MAX_ENEMIES - 1)
    /\ PairAt(ret.obs, 1, 10) = InField(AllyAt(10), WIDTH, HEIGHT)
    /\ PairAt(ret.obs, 21, 10) = <<0, 0>>

\* the worked example was encoded
ExampleEncoded == Encoded /\ arg = ExampleCall

\* C12 as stated: encoding [{ally knight, 100, 200}, {enemy archer, 300, 400}]
\* with field size 1080x1920 gives an ally block of (100/1080, 200/1920) and
\* eight (0, 0) pairs, then an enemy block of (300/1080, 400/1920) and nine
\* (0, 0) pairs.
C12_ExampleAsStated ==
    ExampleEncoded =>
        /\ PairAt(ret.obs, 1, 1) = <<100 * 1920, 200 * 1080>>
        /\ \A k \in 2..9 : PairAt(ret.obs, 1, k) = <<0, 0>>
        /\ PairAt(ret.obs, 19, 1) = <<300 * 1920, 400 * 1080>>
        /\ \A k \in 2..10 : PairAt(ret.obs, 19, k) = <<0, 0>>
        /\ Len(ret.obs) = 1 + 2 * 9 + 2 * 10

\* C12, amended: the ally block is (100/1080, 200/1920) and nine (0, 0)
\* pairs, and the enemy block after it is (300/1080, 400/1920) and nine
\* (0, 0) pairs.
C12_ExampleEncoding ==
    ExampleEncoded =>
        /\ PairAt(ret.obs, 1, 1) = <<100 * 1920, 200 * 1080>>
        /\ \A k \in 2..10 : PairAt(ret.obs, 1, k) = <<0, 0>>
        /\ PairAt(ret.obs, 21, 1) = <<300 * 1920, 400 * 1080>>
        /\ \A k \in 2..10 : PairAt(ret.obs, 21, k) = <<0, 0>>
        /\ Len(ret.obs) = 1 + 2 * 10 + 2 * 10

C12_Witness == ExampleEncoded /\ PairAt(ret.obs, 21, 1) # <<0, 0>>

(***************************************************************************)
(* The terminal step.                                                      *)
(***************************************************************************)
\* C13: the step() that finds a latched outcome returns done = true and, as
\* reward, what _compute_reward gives for the observation it takes plus
\* exactly 100 for a victory, minus exactly 100 for a defeat.
C13_TerminalReward ==
    [][(pc = "step_terminal" /\ pc' = "idle" /\ ret'.status = "ok") =>
          /\ ret'.done
          /\ \E f \in Frames :
                ret'.reward =
                    compute_reward(StateOf[f], prev_elixir, prev_enemy_presence).reward
                    + (IF game_over_flag = "victory" THEN 100 * Scale
                       ELSE 0 - 100 * Scale)]_vars

\* a terminal step returned after a defeat, with enemies on the field
C13_Witness ==
    /\ pc = "idle" /\ ret.kind = "step" /\ ret.status = "ok" /\ ret.done
    /\ game_over_flag = "defeat"
    /\ ret.reward < 0 - 100 * Scale

(***************************************************************************)
(* The hand-reading pass, the configuration, the placement heuristic and   *)
(* the elixir estimate.                                                    *)
(***************************************************************************)
\* C14: in the hand-reading pass a classification call that raises, or one
\* that gives no prediction, makes only its own slot "Unknown": the hand
\* returned has one entry per captured card image and the other slots hold
\* their classes.
C14_SlotFailureIsLocal ==
    (arg.op = "detect_cards_in_hand" /\ ret.kind = "detect_cards_in_hand"
        /\ config.card) =>
        /\ Len(ret.obs) = Len(arg.slots)
        /\ \A i \in 1..Len(arg.slots) :
              ret.obs[i] = IF arg.slots[i] \in {"raise", "empty"}
                           THEN "Unknown"
                           ELSE arg.slots[i]

\* C15: a controller that was constructed never fails later for a missing
\* setting (no reset() or step() ends with the ValueError of a missing
\* workspace identifier) and never reads a hand without the card
\* classification workspace.
C15_NoLateConfigurationFailure ==
    /\ (pc = "idle" => ret.status # "ValueError")
    /\ (pc \in {"step_skip", "step_play"} => config.card)

\* _compute_placement was called and returned
Placed == arg.op = "_compute_placement" /\ ret.kind = "_compute_placement"

\* C16: with no tracked enemy unit the placement is (0.5, 0.5) for a spell
\* and (0.5, 0.8) for a troop, and for every list of tracked enemy units, on
\* or off the field, both fractions lie in [0, 1].
C16_PlacementInField ==
    Placed =>
        /\ 0 <= ret.obs[1] /\ ret.obs[1] <= Scale
        /\ 0 <= ret.obs[2] /\ ret.obs[2] <= Scale
        /\ arg.enemies = <<>> =>
              ret.obs = IF arg.card_name = "Fireball"
                        THEN <<Scale \div 2, Scale \div 2>>
                        ELSE <<Scale \div 2, (4 * Scale) \div 5>>

\* a troop was placed against an enemy left of the field
C16_Witness ==
    /\ Placed
    /\ arg.card_name = "Knight"
    /\ Len(arg.enemies) = 2
    /\ \A i \in 1..2 : arg.enemies[i].x < 0
    /\ ret.obs[1] = 0

\* count_elixir was called and returned
Counted == arg.op = "count_elixir" /\ ret.kind = "count_elixir"

\* C17: count_elixir returns an integer in 0..10 whatever the pixels of the
\* screenshot, and 0 without raising when no screenshot can be taken (no
\* device, or a screencap that fails).
C17_ElixirInRange ==
    Counted =>
        /\ ret.status = "ok"
        /\ ret.obs \in 0..10
        /\ (arg.device # "ok" => ret.obs = 0)

\* every sampled pixel of a full screenshot shows the elixir colour
C17_Witness ==
    /\ Counted
    /\ arg.device = "ok"
    /\ \A i \in 1..10 : arg.shot.px[i] = <<229, 128, 225>>
    /\ arg.shot.width = 1280 /\ arg.shot.height = 720
    /\ ret.obs = 10

(***************************************************************************)
(* The watchers and the terminal outcome.                                  *)
(***************************************************************************)
\* C18: at every moment at most one watcher thread of the controller is in
\* its poll loop.
C18_OneWatcherAtATime == Cardinality(Running) <= 1

\* C19: a poll in which detect_game_end() returns victory or defeat makes the
\* watcher write exactly that outcome to game_over_flag and end without
\* another poll; a poll that returns None leaves the flag as it is and, while
\* the stop event is not set, is followed by another poll.
C19_LatchOnFirstDetection ==
    [][\A w \in Watchers :
          /\ \A finds \in FindInputs :
                WatcherPoll(w, finds) =>
                    IF detect_game_end(finds) \in {"victory", "defeat"}
                    THEN /\ watcher'[w] = "latch"
                         /\ result'[w].outcome = detect_game_end(finds)
                    ELSE /\ watcher'[w] = "check"
                         /\ game_over_flag' = game_over_flag
          /\ (watcher[w] = "latch" /\ watcher'[w] # "latch") =>
                /\ game_over_flag' = result[w].outcome
                /\ watcher'[w] = "done"
          /\ (watcher[w] = "done" => watcher'[w] = "done")
          /\ (watcher[w] = "check" /\ watcher'[w] # "check") =>
                watcher'[w] = IF endgame_thread_stop THEN "done" ELSE "poll"]_vars

\* a watcher has ended by latching a defeat, which is still in the flag
C19_Witness ==
    \E w \in Watchers :
        /\ watcher[w] = "done"
        /\ flag_writer = w
        /\ game_over_flag = "defeat"
        /\ ~endgame_thread_stop

\* C20: step() takes the terminal branch exactly when game_over_flag holds an
\* outcome as it tests it, a step that returns reports done = true exactly
\* from that branch, and an outcome reported with done = true was detected
\* by a watcher in the episode the step belongs to.
C20_DoneIffLatchedThisEpisode ==
    /\ []((pc = "idle" /\ ret.kind = "step" /\ ret.status = "ok" /\ ret.done) =>
            flag_episode = Episode)
    /\ [][/\ (pc = "idle" /\ pc' \in {"step_terminal", "step_hand"}) =>
                (pc' = "step_terminal" <=> game_over_flag # "None")
          /\ (InStep /\ pc' = "idle" /\ ret'.status = "ok") =>
                (ret'.done <=> pc = "step_terminal")]_vars

DeviceEnemies(predictions) ==
    LET units == get_enemy_units(predictions)
    IN {<<units[i].x + TOP_LEFT_X, units[i].y + TOP_LEFT_Y>> : i \in 1..Len(units)}

\* a tracked enemy unit lies within the radius of the device point (x, y)
EnemyNear(predictions, x, y) ==
    \E e \in DeviceEnemies(predictions) :
        (e[1] - x) * (e[1] - x) + (e[2] - y) * (e[2] - y) < 100 * 100

\* C22: a step() that goes on to its reward after the card phase has a spell
\* penalty of -5 exactly when it played a spell-class card and no tracked
\* enemy unit lies within 100 pixels of the play target, both on the device;
\* it is 0 for a troop card, for no play, and for a spell with a tracked
\* enemy within that radius.
C22_SpellPenalty ==
    [][(pc = "step_play" /\ pc' = "step_finish") =>
          spell_penalty' =
              IF /\ played' # None
                 /\ PyIndex(current_cards, played'[3]) \in SPELL_CARDS
                 /\ ~EnemyNear(last_predictions', played'[1], played'[2])
              THEN 0 - 5 * Scale
              ELSE 0]_vars

(***************************************************************************)
(* The reward function called on its own.                                  *)
(***************************************************************************)
\* this step is a call of _compute_reward, and Passed is its argument
RewardCalled == arg.op = "_compute_reward" /\ arg'.calls = arg.calls + 1
Passed == arg.states[arg.calls + 1]

\* the elixir an observation stands for and the sum of its twenty enemy
\* coordinates, in units of 1 / Scale
ElixirOf(state) == 10 * state[1]
PresenceOf(state) ==
    SumSeq([k \in 1..(2 * MAX_ENEMIES) |-> state[1 + 2 * MAX_ALLIES + k]])

\* C23: for an observation the reward is -enemy_presence, the sum of the
\* enemy coordinates, plus 2 * min(elixir_spent, enemy_reduced) exactly when
\* the previous elixir and enemy presence are both known and both
\* differences are strictly positive; the first reward after reset() has no
\* trade bonus.
C23_RewardValue ==
    [][(RewardCalled /\ Passed # None) =>
          /\ ret'.reward =
                (IF /\ prev_elixir # None /\ prev_enemy_presence # None
                    /\ prev_elixir[1] - ElixirOf(Passed) > 0
                    /\ prev_enemy_presence[1] - PresenceOf(Passed) > 0
                 THEN 2 * Min2(prev_elixir[1] - ElixirOf(Passed),
                               prev_enemy_presence[1] - PresenceOf(Passed))
                 ELSE 0)
                - PresenceOf(Passed)
          /\ (ret.kind = "reset" => ret'.reward = 0 - PresenceOf(Passed))]_vars

\* the second of two calls found less elixir and less enemy presence than the
\* first and was given the trade bonus
C23_Witness ==
    /\ arg.op = "_compute_reward" /\ arg.calls = 2
    /\ arg.states[1] # None /\ arg.states[2] # None
    /\ ElixirOf(arg.states[1]) > ElixirOf(arg.states[2])
    /\ PresenceOf(arg.states[1]) > PresenceOf(arg.states[2])
    /\ ret.kind = "_compute_reward"
    /\ ret.reward > 0 - PresenceOf(arg.states[2])

\* C24: every call of _compute_reward, whatever its argument, stores the
\* elixir and the enemy presence of that call as the previous ones; no call
\* leaves the values of an older observation in place.
C24_EveryCallUpdates ==
    [][RewardCalled =>
          IF Passed # None
          THEN /\ prev_elixir' = Some(ElixirOf(Passed))
               /\ prev_enemy_presence' = Some(PresenceOf(Passed))
          ELSE /\ (prev_elixir # None => prev_elixir' # prev_elixir)
               /\ (prev_enemy_presence # None =>
                      prev_enemy_presence' # prev_enemy_presence)]_vars

(***************************************************************************)
(* The princess-tower bonus and the skipped step.                          *)
(***************************************************************************)
\* C25: a step() that reaches its action phase and returns has +20 in its
\* reward exactly when the count of enemy princess towers it detects is
\* strictly smaller than the stored one, and stores the count it detected;
\* the stored count is written by reset() and by such a step only.
C25_TowerBonus ==
    [][/\ (pc = "step_finish" /\ pc' = "idle" /\ ret'.status = "ok") =>
            /\ \E f \in Frames :
                  prev_enemy_princess_towers' = Some(count_enemy_princess_towers(f))
            /\ \E f \in Frames :
                  ret'.reward =
                      compute_reward(StateOf[f], prev_elixir,
                                     prev_enemy_presence).reward
                      + spell_penalty
                      + (IF /\ prev_enemy_princess_towers # None
                            /\ prev_enemy_princess_towers'[1]
                                  < prev_enemy_princess_towers[1]
                         THEN 20 * Scale
                         ELSE 0)
       /\ (prev_enemy_princess_towers' # prev_enemy_princess_towers) =>
            pc \in {"reset_rest", "step_finish"}]_vars

\* a step returned with the bonus in its reward, having found no enemy
\* princess tower where two stood
C25_Witness ==
    /\ pc = "idle" /\ ret.kind = "step" /\ ret.status = "ok" /\ ~ret.done
    /\ prev_enemy_princess_towers = Some(0)
    /\ ret.reward >= 14 * Scale

(***************************************************************************)
(* The sides of the detections.                                            *)
(***************************************************************************)
\* _get_state was called on a list of labelled detections and returned
LabelsEncoded == Encoded /\ "labels" \in DOMAIN arg

\* the detections of the list that stand for a side, in their order
Standing(side) ==
    LET at == OfSide(arg.labels, side)
    IN [k \in 1..Len(at) |-> arg.frame.predictions[at[k]]]

\* C26: a detection is in the ally block (the enemy block) exactly when its
\* label, trimmed and in lower case, starts with "ally" ("enemy") and is not
\* one of the four tower classes; a tower, a label of another prefix and a
\* detection without a label put nothing in the observation.
C26_SidesByLabel ==
    LabelsEncoded =>
        /\ BlockHolds(ret.obs, 1, Standing("ally"), MAX_ALLIES)
        /\ BlockHolds(ret.obs, 1 + 2 * MAX_ALLIES, Standing("enemy"), MAX_ENEMIES)
        /\ \A i \in 1..Len(arg.labels) :
              arg.labels[i].side = "none" =>
                  \A k \in 2..Len(ret.obs) :
                      /\ ret.obs[k] # arg.frame.predictions[i].x * HEIGHT
                      /\ ret.obs[k] # arg.frame.predictions[i].y * WIDTH

\* a padded upper-case enemy label, a tower written in capitals and a
\* detection without a label were encoded: only the first is in the vector
C26_Witness ==
    /\ LabelsEncoded
    /\ Len(arg.labels) = 3
    /\ arg.labels[1].label = <<"\t", "E", "N", "E", "M", "Y", " ", "a", "r", "c", "h", "e", "r", "\n">>
    /\ arg.labels[2].label = <<" ", "E", "n", "e", "m", "y", " ", "K", "i", "n", "g", " ", "T", "o", "w", "e", "r">>
    /\ ~arg.labels[3].present
    /\ PairAt(ret.obs, 21, 1) = <<100 * HEIGHT, 50 * WIDTH>>
    /\ PairAt(ret.obs, 21, 2) = <<0, 0>>
    /\ PairAt(ret.obs, 1, 1) = <<0, 0>>

(***************************************************************************)
(* The skipped step.                                                       *)
(***************************************************************************)
\* what a skipped step must leave alone
CarriedOver == <<prev_elixir, prev_enemy_presence, prev_enemy_princess_towers,
                 game_over_flag>>

\* C27: a non-terminal step() whose hand reads all "Unknown", the empty hand
\* of a failed hand-reading pass included: it takes the skip branch, issues
\* no card play, returns reward 0 and done = false, and from its entry to its
\* return leaves the previous elixir, the previous enemy presence, the
\* previous princess-tower count and the terminal flag as they are.
C27_SkippedStep ==
    /\ [](pc = "step_skip" => played = None)
    /\ [][/\ (pc = "idle" /\ pc' = "step_hand") => UNCHANGED CarriedOver
          /\ (pc = "step_hand" /\ pc' # pc) =>
                /\ pc' = "step_skip" <=>
                      \A i \in 1..Len(current_cards') : current_cards'[i] = "Unknown"
                /\ UNCHANGED CarriedOver
          /\ (pc = "step_skip" /\ pc' # pc /\ ret'.status = "ok") =>
                /\ pc' = "idle"
                /\ ret'.kind = "step"
                /\ ret'.reward = 0
                /\ ~ret'.done
                /\ UNCHANGED CarriedOver]_vars

\* a step whose hand-reading pass failed was skipped, in an episode that has
\* rewarded an observation before
C27_Witness ==
    /\ pc = "idle" /\ ret.kind = "step" /\ ret.status = "ok"
    /\ current_cards = <<>>
    /\ ret.reward = 0 /\ ~ret.done
    /\ prev_elixir # None
    /\ game_over_flag = "None"

(***************************************************************************)
(* The card play and the grid cell of the action.                          *)
(***************************************************************************)
\* the card phase was run for an index of the catalogue
CardPhaseDone == arg.op = "card_play" /\ ret.kind = "card_play"

\* two indexes of the catalogue that name the same card
SameCard(i, j) == i \div (18 * 28) = j \div (18 * 28)

\* C28: the card play issued for an action that is not the no-op depends on
\* the card in the chosen slot and on the tracked enemy units only: every
\* other cell of the same card, with the same hand and the same predictions,
\* gives the identical play, and its target lies in the field rectangle.
C28_PlayIgnoresCell ==
    (CardPhaseDone /\ arg.action_index < 4 * 18 * 28) =>
        /\ \A other \in CellIndexes :
              SameCard(other, arg.action_index) =>
                  card_play_of(other, arg.current_cards, arg.predictions) = ret.obs
        /\ ret.obs # None =>
              /\ ret.obs[1] \in TOP_LEFT_X..BOTTOM_RIGHT_X
              /\ ret.obs[2] \in TOP_LEFT_Y..BOTTOM_RIGHT_Y
              /\ ret.obs[3] = arg.action_index \div (18 * 28)

\* the far corner cell of card 0 was chosen with a spell in slot 0 and one
\* enemy tracked beyond the near corner: the play is at the near corner
C28_Witness ==
    /\ CardPhaseDone
    /\ arg.action_index = 17 * 28 + 27
    /\ arg.current_cards[1] = "Fireball"
    /\ Len(arg.enemies) = 1
    /\ ret.obs = <<0, 100, 0>>

====
